---- MODULE Spec2Model ----
(***************************************************************************)
(* Model of python/triton/testing.py: the tolerance comparator (allclose,  *)
(* assert_allclose), the benchmark engine (do_bench) and the benchmark     *)
(* runner (Mark.run, Mark._run); and of python/test/test_language.py: the  *)
(* bitwise-operator case, the atomic reduction case, patch_kernel and      *)
(* make_ptr_str.                                                           *)
(*                                                                         *)
(* Numbers.  Tensor elements are integers (a floating tensor holds         *)
(* integer-valued floats, which float32 represents exactly in the ranges   *)
(* used).  A tolerance is kept in hundredths (1e-2 is 1, 0.5 is 50) and a  *)
(* quotient a / b is never formed: `a / b <= t / 100` is decided on the    *)
(* cross products, with the IEEE results of a division by zero (nan, inf,  *)
(* -inf) decided as the hardware decides them.                             *)
(***************************************************************************)
EXTENDS Integers, Sequences, FiniteSets, TLC

VARIABLES
    entry,      \* which entry point this run exercises
    \* ---- allclose / assert_allclose
    ac_pc,      \* "ready" before the call, "done" after it
    ac_fn,      \* the function called: "allclose" or "assert_allclose"
    ac_x,       \* first tensor argument
    ac_y,       \* second tensor argument
    ac_tol,     \* the tol argument, in hundredths
    ac_out,     \* how the call ended
    \* ---- do_bench
    db_pc,      \* the statement do_bench executes next
    db_warmup,  \* argument warmup, in time units
    db_rep,     \* argument rep
    db_grad,    \* the .grad of the grad_to_none tensors: "absent" when the
                \* argument is None, else "none" or "stale"
    db_percentiles, \* argument percentiles, in percent
    db_cache,   \* the scratch buffer: "unallocated", "uninitialized", "zero"
    db_elapsed, \* elapsed time of the 5-call bracket (-1 before it is read)
    db_count,   \* int(warmup / estimate_ms) (-1 before it is computed)
    db_k,       \* calls made by the loop in progress
    db_i,       \* trials completed
    db_log,     \* the device operations and calls issued so far, in order
    db_times,   \* the elapsed times read for the trials
    db_ret,     \* the value returned
    db_exc,     \* the exception that left do_bench, or "none"
    \* ---- Mark
    mk_fn,      \* self.fn: which user function was decorated
    mk_benchmarks, \* self.benchmarks: a Benchmark or a list of them
    mk_save_path,  \* argument save_path of run
    mk_pc,      \* the statement run / _run executes next
    mk_list,    \* the local list `benchmarks` of run
    mk_b,       \* benchmarks of the list already handed to _run
    mk_xi,      \* x values of the current benchmark already swept
    mk_yi,      \* line values of the current row already called
    mk_rows,    \* row_mean, row_min, row_max of the row in progress
    mk_columns, \* the column labels of df
    mk_df,      \* the rows of df
    mk_calls,   \* every call of self.fn so far: benchmark, keywords, result
    mk_files,   \* the plot and table files written so far
    mk_html,    \* the lines written to results.html (<<>> when not opened)
    mk_exc,     \* the exception that left run, or "none"
    \* ---- test_bitwise_op / _test_binary
    tb_pc,      \* the statement of the test case executed next
    tb_dtype_x, \* parameter dtype_x
    tb_dtype_y, \* parameter dtype_y
    tb_op,      \* the operator of expr: "&", "|" or "^"
    tb_x,       \* input x
    tb_y,       \* input y
    tb_z_ref,   \* the host reference
    tb_z_tri,   \* the output of the kernel
    tb_exc,     \* the exception raised inside _test_binary: where and what
    tb_outcome, \* "running", then "passed" or "failed"
    \* ---- test_atomic_rmw
    at_pc,      \* the statement of the test case executed next
    at_op,      \* parameter op: "add", "max" or "min"
    at_dtype_x, \* parameter dtype_x
    at_mode,    \* parameter mode
    at_x_tri,   \* the input, one element per program
    at_z_tri,   \* the output cell
    at_prog,    \* per program: its position in the kernel and its register x
    at_last,    \* the program whose atomic operation came last so far
    at_z_ref,   \* the host reduction
    at_outcome, \* "running", then "passed" or "failed"
    \* ---- patch_kernel
    pk_heap,    \* the kernel objects: object id -> its fields
    pk_orig,    \* the source the template was constructed with
    pk_to_replace, \* the substitution map of the latest call
    pk_kernels, \* the objects the calls returned, in call order
    pk_expect,  \* the source each returned kernel had when it was returned
    \* ---- make_ptr_str
    mp_pc,      \* "loop" while the for loop runs, then "returned"
    mp_shape,   \* parameter shape
    mp_k,       \* how many iterations of the loop have run
    mp_stride,  \* local stride
    mp_offsets, \* local offsets: the terms built so far
    mp_ret      \* the expression returned: its name and its terms

ac_vars == <<ac_pc, ac_fn, ac_x, ac_y, ac_tol, ac_out>>

db_vars == <<db_pc, db_warmup, db_rep, db_grad, db_percentiles, db_cache,
             db_elapsed, db_count, db_k, db_i, db_log, db_times, db_ret, db_exc>>

mk_vars == <<mk_fn, mk_benchmarks, mk_save_path, mk_pc, mk_list, mk_b, mk_xi,
             mk_yi, mk_rows, mk_columns, mk_df, mk_calls, mk_files, mk_html,
             mk_exc>>

tb_vars == <<tb_pc, tb_dtype_x, tb_dtype_y, tb_op, tb_x, tb_y, tb_z_ref, tb_z_tri,
             tb_exc, tb_outcome>>

at_vars == <<at_pc, at_op, at_dtype_x, at_mode, at_x_tri, at_z_tri, at_prog, at_last,
             at_z_ref, at_outcome>>

pk_vars == <<pk_heap, pk_orig, pk_to_replace, pk_kernels, pk_expect>>

mp_vars == <<mp_pc, mp_shape, mp_k, mp_stride, mp_offsets, mp_ret>>

\* the state of the cases of test/test_language.py
tl_vars == <<tb_vars, at_vars, pk_vars, mp_vars>>

vars == <<entry, ac_vars, db_vars, mk_vars, tl_vars>>

(***************************************************************************)
(* Bounds                                                                  *)
(***************************************************************************)
\* longest 1-d tensor handed to allclose
MaxLen == 2

\* largest warmup argument of do_bench, in time units
MaxWarmup == 2

\* largest rep argument of do_bench
MaxRep == 3

\* largest elapsed time of the 5-call estimate bracket, in time units
MaxElapsed == 6

\* largest elapsed time of one trial, in time units
MaxTime == 3

\* longest x_vals of a Benchmark
MaxX == 2

\* most line values of a Benchmark
MaxLines == 2

\* longest list of Benchmarks given to Mark
MaxBench == 2

\* programs of the grid test_atomic_rmw launches, in place of n_programs
MaxPrograms == 3

\* longest template source, in symbols
MaxSrcLen == 3

\* longest key of a substitution map, in symbols
MaxKeyLen == 2

\* longest replacement value of a substitution map, in symbols
MaxValueLen == 1

\* most kernels instantiated from one template
MaxKernels == 2

\* largest rank of a shape given to make_ptr_str
MaxRank == 3

\* largest extent of one dimension of a shape
MaxDim == 3

(***************************************************************************)
(* Tensors                                                                 *)
(***************************************************************************)
IntDtypes == {"int8", "int32"}

Dtypes == {"bool", "float32"} \cup IntDtypes

\* element values each dtype is sampled at: a negative, zero, two nearby
\* positives; int8 also gets its minimum, where x - y and abs wrap
Vals(dtype) ==
    CASE dtype = "bool" -> {0, 1}
      [] dtype = "int8" -> {-128, -1, 0, 100, 101}
      [] dtype = "int32" -> {-1, 0, 100, 101}
      [] OTHER -> {-100, -2, 0, 100, 102}

SeqsUpTo(S, n) == UNION {[1..k -> S] : k \in 1..n}

Tensors == UNION {[dtype : {d}, data : SeqsUpTo(Vals(d), MaxLen)] : d \in Dtypes}

NoTensor == [dtype |-> "none", data |-> <<>>]

shape(x) == <<Len(x.data)>>

\* two's complement wrap of an int8 result
Wrap8(v) == ((v + 128) % 256) - 128

\* elementwise arithmetic keeps the dtype: int8 wraps, the wider kinds do not
\* overflow on the sampled values
Fit(dtype, v) == IF dtype = "int8" THEN Wrap8(v) ELSE v

AbsInt(v) == IF v < 0 THEN -v ELSE v

\* abs(x - y), elementwise
AbsDiff(x, y) ==
    [i \in 1..Len(x.data) |->
        Fit(x.dtype, AbsInt(Fit(x.dtype, x.data[i] - y.data[i])))]

\* torch.max(t) of a non-empty 1-d tensor
SeqMax(s) == CHOOSE m \in {s[i] : i \in 1..Len(s)} : \A i \in 1..Len(s) : s[i] <= m

Max2(a, b) == IF a >= b THEN a ELSE b

\* torch.sum(x ^ y) of two bool tensors
RECURSIVE XorSum(_, _, _)
XorSum(x, y, i) ==
    IF i = 0 THEN 0
    ELSE XorSum(x, y, i - 1) + (IF x.data[i] # y.data[i] THEN 1 ELSE 0)

\* (num / den) <= tol/100 in IEEE arithmetic: num / 0 is nan (num = 0), +inf
\* (num > 0) or -inf (num < 0), and nan compares false
TolDen == 100

QuotientLeq(num, den, tol) ==
    IF den > 0 THEN TolDen * num <= tol * den
    ELSE IF den < 0 THEN TolDen * num >= tol * den
    ELSE num < 0

(***************************************************************************)
(* allclose, assert_allclose                                               *)
(***************************************************************************)
\* tol=1e-2, the default of both signatures
TolDefault == 1

\* tol = 1e-2, the assignment inside allclose
TolAssigned == 1

Raise(kind, msg, compared) ==
    [kind |-> kind, val |-> "-", msg |-> msg, compared |-> compared]

Return(val, compared) ==
    [kind |-> "return", val |-> val, msg |-> "", compared |-> compared]

Bool(b) == IF b THEN "True" ELSE "False"

allclose(x, y, tol) ==
    IF x.dtype # y.dtype THEN Raise("RuntimeError", "dtype", FALSE)
    ELSE IF shape(x) # shape(y) THEN Raise("RuntimeError", "shape", FALSE)
    ELSE IF x.dtype = "bool" THEN Return(Bool(XorSum(x, y, Len(x.data)) = 0), TRUE)
    ELSE
        LET tol1 == IF x.dtype \in IntDtypes THEN 0 ELSE tol
            diff == AbsDiff(x, y)
            x_max == SeqMax(x.data)
            y_max == SeqMax(y.data)
            tol2 == TolAssigned
        IN  Return(Bool(QuotientLeq(SeqMax(diff), Max2(x_max, y_max), tol2)), TRUE)

assert_allclose(x, y, tol) ==
    IF x.dtype # y.dtype THEN Raise("AssertionError", "", FALSE)
    ELSE
        LET r == allclose(x, y, tol)
        IN  IF r.kind # "return" THEN r
            ELSE IF r.val = "False" THEN Raise("AssertionError", "", r.compared)
            ELSE Return("None", r.compared)

Comparators == {"allclose", "assert_allclose"}

\* the tol arguments a caller passes: the default 1e-2 and 0.5
Tols == {TolDefault, 50}

NoOutcome == [kind |-> "none", val |-> "-", msg |-> "", compared |-> FALSE]

AcIdle ==
    /\ ac_pc = "idle" /\ ac_fn = "none" /\ ac_x = NoTensor /\ ac_y = NoTensor
    /\ ac_tol = TolDefault /\ ac_out = NoOutcome

AcInit ==
    /\ ac_pc = "ready"
    /\ ac_fn \in Comparators
    /\ ac_x \in Tensors
    /\ ac_y \in Tensors
    /\ ac_tol \in Tols
    /\ ac_out = NoOutcome

\* one call of allclose: it runs to its return or its raise
CallAllclose ==
    /\ entry = "allclose" /\ ac_pc = "ready" /\ ac_fn = "allclose"
    /\ ac_out' = allclose(ac_x, ac_y, ac_tol)
    /\ ac_pc' = "done"
    /\ UNCHANGED <<entry, tl_vars, ac_fn, ac_x, ac_y, ac_tol, db_vars, mk_vars>>

\* one call of assert_allclose
CallAssertAllclose ==
    /\ entry = "allclose" /\ ac_pc = "ready" /\ ac_fn = "assert_allclose"
    /\ ac_out' = assert_allclose(ac_x, ac_y, ac_tol)
    /\ ac_pc' = "done"
    /\ UNCHANGED <<entry, tl_vars, ac_fn, ac_x, ac_y, ac_tol, db_vars, mk_vars>>

(***************************************************************************)
(* do_bench                                                                *)
(*                                                                         *)
(* warmup and every elapsed time are whole numbers of one time unit; the   *)
(* per-call estimate elapsed / 5 is kept as the pair (elapsed, 5) and the  *)
(* returned median and quantiles are in hundredths of the unit, so every   *)
(* quotient and interpolation is exact.  Every call of fn may raise.       *)
(***************************************************************************)
\* for _ in range(5)
EstimateCalls == 5

\* estimate_ms = start_event.elapsed_time(end_event) / 5
EstimateDivisor == 5

\* one entry of the log: an operation, the phase it belongs to, the trial
Ev(op, ph, i) == [op |-> op, ph |-> ph, i |-> i]

\* the percentiles arguments exercised, in percent; <<20, 80>> is the default
PercentileLists == {<<>>, <<20, 80>>, <<60, 90>>, <<50>>}

TimeVals == 1..MaxTime

NoRet == [kind |-> "none", vals |-> <<>>]

DbIdle ==
    /\ db_pc = "idle" /\ db_warmup = 0 /\ db_rep = 0 /\ db_grad = "absent"
    /\ db_percentiles = <<>> /\ db_cache = "unallocated" /\ db_elapsed = -1
    /\ db_count = -1 /\ db_k = 0 /\ db_i = 0 /\ db_log = <<>> /\ db_times = <<>>
    /\ db_ret = NoRet /\ db_exc = "none"

\* do_bench is entered with its arguments bound
DbInit ==
    /\ db_pc = "first_call"
    /\ db_warmup \in 0..MaxWarmup
    /\ db_rep \in 0..MaxRep
    /\ db_grad \in {"absent", "none"}
    /\ db_percentiles \in PercentileLists
    /\ db_cache = "unallocated" /\ db_elapsed = -1 /\ db_count = -1
    /\ db_k = 0 /\ db_i = 0 /\ db_log = <<>> /\ db_times = <<>>
    /\ db_ret = NoRet /\ db_exc = "none"

\* fn() with a failed call caught and made again
FnCallRetry(ph, i, next) ==
    /\ db_log' = Append(db_log, Ev("fn", ph, i))
    /\ \/ /\ db_pc' = next
          /\ db_grad' = IF db_grad = "absent" THEN "absent" ELSE "stale"
          /\ db_exc' = "none"
       \/ /\ db_pc' = db_pc
          /\ db_grad' = db_grad
          /\ db_exc' = "fn"

\* fn(): it completes, or raises and the exception leaves do_bench, which has
\* no handler; a completed call that runs a backward pass leaves gradients
FnCall(ph, i, next) ==
    /\ db_log' = Append(db_log, Ev("fn", ph, i))
    /\ \/ /\ db_pc' = next
          /\ db_grad' = IF db_grad = "absent" THEN "absent" ELSE "stale"
          /\ db_exc' = "none"
       \/ /\ db_pc' = "raised"
          /\ db_grad' = db_grad
          /\ db_exc' = "fn"

\* a step that is no call of fn and cannot fail
Step(op, ph, i, next) ==
    /\ db_log' = Append(db_log, Ev(op, ph, i))
    /\ db_pc' = next

\* line 111
DbFirstCall ==
    /\ entry = "do_bench" /\ db_pc = "first_call"
    /\ FnCall("first", 0, "sync_first")
    /\ UNCHANGED <<entry, tl_vars, ac_vars, mk_vars, db_warmup, db_rep, db_percentiles, db_cache,
                   db_elapsed, db_count, db_k, db_i, db_times, db_ret>>

\* line 112
DbSyncFirst ==
    /\ entry = "do_bench" /\ db_pc = "sync_first"
    /\ Step("synchronize", "first", 0, "estimate_start")
    /\ UNCHANGED <<entry, tl_vars, ac_vars, mk_vars, db_warmup, db_rep, db_grad, db_percentiles,
                   db_cache, db_elapsed, db_count, db_k, db_i, db_times, db_ret,
                   db_exc>>

\* lines 113-115
DbEstimateStart ==
    /\ entry = "do_bench" /\ db_pc = "estimate_start"
    /\ Step("start", "estimate", 0, "estimate_call")
    /\ db_k' = 0
    /\ UNCHANGED <<entry, tl_vars, ac_vars, mk_vars, db_warmup, db_rep, db_grad, db_percentiles,
                   db_cache, db_elapsed, db_count, db_i, db_times, db_ret, db_exc>>

\* lines 116-117, one iteration
DbEstimateCall ==
    /\ entry = "do_bench" /\ db_pc = "estimate_call" /\ db_k < EstimateCalls
    /\ FnCall("estimate", 0, "estimate_call")
    /\ db_k' = db_k + 1
    /\ UNCHANGED <<entry, tl_vars, ac_vars, mk_vars, db_warmup, db_rep, db_percentiles, db_cache,
                   db_elapsed, db_count, db_i, db_times, db_ret>>

\* line 118
DbEstimateEnd ==
    /\ entry = "do_bench" /\ db_pc = "estimate_call" /\ db_k >= EstimateCalls
    /\ Step("end", "estimate", 0, "sync_estimate")
    /\ UNCHANGED <<entry, tl_vars, ac_vars, mk_vars, db_warmup, db_rep, db_grad, db_percentiles,
                   db_cache, db_elapsed, db_count, db_k, db_i, db_times, db_ret,
                   db_exc>>

\* line 119
DbSyncEstimate ==
    /\ entry = "do_bench" /\ db_pc = "sync_estimate"
    /\ Step("synchronize", "estimate", 0, "estimate")
    /\ UNCHANGED <<entry, tl_vars, ac_vars, mk_vars, db_warmup, db_rep, db_grad, db_percentiles,
                   db_cache, db_elapsed, db_count, db_k, db_i, db_times, db_ret,
                   db_exc>>

\* line 120: the device reports the elapsed time of the bracket
DbEstimate ==
    /\ entry = "do_bench" /\ db_pc = "estimate"
    /\ \E e \in 0..MaxElapsed : db_elapsed' = e
    /\ Step("elapsed_time", "estimate", 0, "allocate")
    /\ UNCHANGED <<entry, tl_vars, ac_vars, mk_vars, db_warmup, db_rep, db_grad, db_percentiles,
                   db_cache, db_count, db_k, db_i, db_times, db_ret, db_exc>>

\* the quotient rounded up instead of truncated
warmup_count_ceil(warmup, elapsed) ==
    ((EstimateDivisor * warmup) + elapsed - 1) \div elapsed

\* int(warmup / estimate_ms) with estimate_ms = elapsed / 5 > 0
warmup_count(warmup, elapsed) == (EstimateDivisor * warmup) \div elapsed

\* lines 124-128: the events and the scratch buffer are created, then the
\* warm-up count is evaluated; a zero estimate is a float division by zero
DbAllocate ==
    /\ entry = "do_bench" /\ db_pc = "allocate"
    /\ db_cache' = "uninitialized"
    /\ db_k' = 0
    /\ IF db_elapsed = 0
       THEN /\ db_pc' = "raised"
            /\ db_exc' = "ZeroDivisionError"
            /\ db_count' = db_count
       ELSE /\ db_pc' = "warmup_call"
            /\ db_exc' = db_exc
            /\ db_count' = warmup_count(db_warmup, db_elapsed)
    /\ UNCHANGED <<entry, tl_vars, ac_vars, mk_vars, db_warmup, db_rep, db_grad, db_percentiles,
                   db_elapsed, db_i, db_log, db_times, db_ret>>

\* lines 128-129, one iteration
DbWarmupCall ==
    /\ entry = "do_bench" /\ db_pc = "warmup_call" /\ db_k < db_count
    /\ FnCall("warmup", 0, "warmup_call")
    /\ db_k' = db_k + 1
    /\ UNCHANGED <<entry, tl_vars, ac_vars, mk_vars, db_warmup, db_rep, db_percentiles, db_cache,
                   db_elapsed, db_count, db_i, db_times, db_ret>>

\* line 128, the loop is exhausted
DbWarmupDone ==
    /\ entry = "do_bench" /\ db_pc = "warmup_call" /\ db_k >= db_count
    /\ db_pc' = "trial"
    /\ db_i' = 0
    /\ UNCHANGED <<entry, tl_vars, ac_vars, mk_vars, db_warmup, db_rep, db_grad, db_percentiles,
                   db_cache, db_elapsed, db_count, db_k, db_log, db_times, db_ret,
                   db_exc>>

\* lines 131-137: the next trial begins; the gradients are set to None
DbTrialReset ==
    /\ entry = "do_bench" /\ db_pc = "trial" /\ db_i < db_rep
    /\ IF db_grad = "absent"
       THEN UNCHANGED <<db_grad, db_log>>
       ELSE /\ db_grad' = "none"
            /\ db_log' = Append(db_log, Ev("grad_none", "trial", db_i + 1))
    /\ db_pc' = "trial_zero"
    /\ UNCHANGED <<entry, tl_vars, ac_vars, mk_vars, db_warmup, db_rep, db_percentiles, db_cache,
                   db_elapsed, db_count, db_k, db_i, db_times, db_ret, db_exc>>

\* line 139
DbTrialZero ==
    /\ entry = "do_bench" /\ db_pc = "trial_zero"
    /\ Step("zero_", "trial", db_i + 1, "trial_start")
    /\ db_cache' = "zero"
    /\ UNCHANGED <<entry, tl_vars, ac_vars, mk_vars, db_warmup, db_rep, db_grad, db_percentiles,
                   db_elapsed, db_count, db_k, db_i, db_times, db_ret, db_exc>>

\* line 141
DbTrialStart ==
    /\ entry = "do_bench" /\ db_pc = "trial_start"
    /\ Step("start", "trial", db_i + 1, "trial_call")
    /\ UNCHANGED <<entry, tl_vars, ac_vars, mk_vars, db_warmup, db_rep, db_grad, db_percentiles,
                   db_cache, db_elapsed, db_count, db_k, db_i, db_times, db_ret,
                   db_exc>>

\* line 142
DbTrialCall ==
    /\ entry = "do_bench" /\ db_pc = "trial_call"
    /\ FnCall("trial", db_i + 1, "trial_end")
    /\ UNCHANGED <<entry, tl_vars, ac_vars, mk_vars, db_warmup, db_rep, db_percentiles, db_cache,
                   db_elapsed, db_count, db_k, db_i, db_times, db_ret>>

\* line 143
DbTrialEnd ==
    /\ entry = "do_bench" /\ db_pc = "trial_end"
    /\ Step("end", "trial", db_i + 1, "trial")
    /\ db_i' = db_i + 1
    /\ UNCHANGED <<entry, tl_vars, ac_vars, mk_vars, db_warmup, db_rep, db_grad, db_percentiles,
                   db_cache, db_elapsed, db_count, db_k, db_times, db_ret, db_exc>>

\* the times read without the synchronize of line 144
DbNoSyncTrials ==
    /\ entry = "do_bench" /\ db_pc = "trial" /\ db_i >= db_rep
    /\ db_pc' = "read_times"
    /\ UNCHANGED <<entry, tl_vars, ac_vars, mk_vars, db_warmup, db_rep, db_grad, db_percentiles,
                   db_cache, db_elapsed, db_count, db_k, db_i, db_log, db_times,
                   db_ret, db_exc>>

\* line 144
DbSyncTrials ==
    /\ entry = "do_bench" /\ db_pc = "trial" /\ db_i >= db_rep
    /\ Step("synchronize", "final", 0, "read_times")
    /\ UNCHANGED <<entry, tl_vars, ac_vars, mk_vars, db_warmup, db_rep, db_grad, db_percentiles,
                   db_cache, db_elapsed, db_count, db_k, db_i, db_times, db_ret,
                   db_exc>>

\* line 145: the device reports every trial's elapsed time, in trial order
DbReadTimes ==
    /\ entry = "do_bench" /\ db_pc = "read_times"
    /\ \E t \in [1..db_rep -> TimeVals] : db_times' = t
    /\ db_log' = db_log \o [i \in 1..db_rep |-> Ev("elapsed_time", "trial", i)]
    /\ db_pc' = "quantile"
    /\ UNCHANGED <<entry, tl_vars, ac_vars, mk_vars, db_warmup, db_rep, db_grad, db_percentiles,
                   db_cache, db_elapsed, db_count, db_k, db_i, db_ret, db_exc>>

\* s with v inserted before the first element larger than v
RECURSIVE Insert(_, _)
Insert(s, v) ==
    IF s = <<>> THEN <<v>>
    ELSE IF v <= Head(s) THEN <<v>> \o s
    ELSE <<Head(s)>> \o Insert(Tail(s), v)

\* the elements of s in ascending order
RECURSIVE Sorted(_)
Sorted(s) == IF s = <<>> THEN <<>> ELSE Insert(Sorted(Tail(s)), Head(s))

\* the unit of the returned values: one hundredth of a time unit
Scale == 100

\* torch.quantile(times, q) for one q = p/100, linear interpolation between
\* the two order statistics around rank q * (n - 1); times Scale
quantile(times, p) ==
    LET s == Sorted(times)
        n == Len(s)
        rank == p * (n - 1)
        lo == rank \div 100
        hi == IF lo + 1 < n THEN lo + 1 ELSE lo
    IN  Scale * s[lo + 1] + (rank % 100) * (s[hi + 1] - s[lo + 1])

\* torch.median(times): the lower of the two middle elements; times Scale
median(times) == Scale * Sorted(times)[((Len(times) - 1) \div 2) + 1]

\* tuple(percentiles + [med_ms]): the median last
ReturnValueMedianLast(med_ms, percentiles) ==
    IF percentiles # <<>>
    THEN [kind |-> "tuple", vals |-> percentiles \o <<med_ms>>]
    ELSE [kind |-> "scalar", vals |-> <<med_ms>>]

\* line 148: tuple([med_ms] + percentiles) if percentiles else med_ms
ReturnValue(med_ms, percentiles) ==
    IF percentiles # <<>>
    THEN [kind |-> "tuple", vals |-> <<med_ms>> \o percentiles]
    ELSE [kind |-> "scalar", vals |-> <<med_ms>>]

\* lines 146-148: torch.quantile rejects an empty sample
DbReturn ==
    /\ entry = "do_bench" /\ db_pc = "quantile"
    /\ IF db_times = <<>>
       THEN /\ db_pc' = "raised"
            /\ db_exc' = "RuntimeError"
            /\ db_ret' = db_ret
       ELSE LET percentiles ==
                    [j \in 1..Len(db_percentiles) |->
                        quantile(db_times, db_percentiles[j])]
                med_ms == median(db_times)
            IN  /\ db_pc' = "done"
                /\ db_exc' = db_exc
                /\ db_ret' = ReturnValue(med_ms, percentiles)
    /\ UNCHANGED <<entry, tl_vars, ac_vars, mk_vars, db_warmup, db_rep, db_grad, db_percentiles,
                   db_cache, db_elapsed, db_count, db_k, db_i, db_log, db_times>>

NextDoBench ==
    \/ DbFirstCall \/ DbSyncFirst \/ DbEstimateStart \/ DbEstimateCall
    \/ DbEstimateEnd \/ DbSyncEstimate \/ DbEstimate \/ DbAllocate
    \/ DbWarmupCall \/ DbWarmupDone \/ DbTrialReset \/ DbTrialZero
    \/ DbTrialStart \/ DbTrialCall \/ DbTrialEnd \/ DbSyncTrials
    \/ DbReadTimes \/ DbReturn

(***************************************************************************)
(* Benchmark, Mark                                                         *)
(*                                                                         *)
(* The keyword names of one Benchmark are distinct (a repeated keyword is  *)
(* a TypeError at the call) and line_names labels every line value.        *)
(* show_plots and print_data only draw and print and are left out.         *)
(***************************************************************************)
\* line_vals and line_names of the softmax tutorial
Providers == <<"triton", "torch-native", "torch-jit">>

ProviderLabels == <<"Triton", "Torch (native)", "Torch (jit)">>

XVals == {128, 256}

EmptyDict == [n \in {} |-> 0]

Benchmark(x_names, x_vals, nlines, plot_name, args) ==
    [x_names |-> x_names, x_vals |-> x_vals, line_arg |-> "provider",
     line_vals |-> SubSeq(Providers, 1, nlines),
     line_names |-> SubSeq(ProviderLabels, 1, nlines),
     plot_name |-> plot_name, args |-> args]

XValLists == UNION {[1..k -> XVals] : k \in 0..MaxX}

\* one x name, a plot name and a fixed argument, as in the tutorial; or two
\* x names bound to the same value, no plot name and no fixed argument
Benchmarks ==
    {Benchmark(<<"N">>, xv, l, "softmax-performance", ("M" :> 4096)) :
        xv \in XValLists, l \in 1..MaxLines}
    \cup {Benchmark(<<"M", "N">>, xv, l, "", EmptyDict) :
            xv \in XValLists, l \in 1..MaxLines}

\* the Benchmarks that follow the first one of a list
LaterBenchmarks ==
    {Benchmark(<<"N">>, <<128>>, 1, "softmax-performance", ("M" :> 4096)),
     Benchmark(<<"M", "N">>, <<256>>, 1, "", EmptyDict)}

BenchmarkLists ==
    {<<>>} \cup {<<b>> \o t : b \in Benchmarks,
                    t \in UNION {[1..k -> LaterBenchmarks] : k \in 0..(MaxBench - 1)}}

\* what Mark is constructed with
BenchmarkArgs ==
    {[isBenchmark |-> TRUE, obj |-> b] : b \in Benchmarks}
    \cup {[isBenchmark |-> FALSE, obj |-> l] : l \in BenchmarkLists}

\* the decorated functions: one returns a bare scalar, one a (mean, min, max)
\* triple, one a triple for the first provider and a scalar for the others
UserFns == {"scalar", "triple", "mixed"}

ProviderRank(y) == CHOOSE k \in 1..Len(Providers) : Providers[k] = y

fn(kind, kwargs) ==
    LET m == kwargs["N"] + ProviderRank(kwargs["provider"])
    IN  IF kind = "triple" \/ (kind = "mixed" /\ kwargs["provider"] = Providers[1])
        THEN [kind |-> "triple", vals |-> <<m, m - 1, m + 1>>]
        ELSE [kind |-> "scalar", vals |-> <<m>>]

FnRaised == [kind |-> "raise", vals |-> <<>>]

\* a cell of df
Val(v) == [none |-> FALSE, v |-> v]

None == [none |-> TRUE, v |-> 0]

\* a scalar repeated into the min and max columns
UnpackRepeatsScalar(ret) ==
    IF ret.kind = "triple"
    THEN <<Val(ret.vals[1]), Val(ret.vals[2]), Val(ret.vals[3])>>
    ELSE <<Val(ret.vals[1]), Val(ret.vals[1]), Val(ret.vals[1])>>

\* y_mean, y_min, y_max = ret, and on TypeError ret, None, None
Unpack(ret) ==
    IF ret.kind = "triple"
    THEN <<Val(ret.vals[1]), Val(ret.vals[2]), Val(ret.vals[3])>>
    ELSE <<Val(ret.vals[1]), None, None>>

\* {x_name: x for x_name in bench.x_names}
x_args(b, x) == [n \in {b.x_names[k] : k \in 1..Len(b.x_names)} |-> x]

\* the call without **bench.args
KeywordsWithoutArgs(b, x, y) == x_args(b, x) @@ (b.line_arg :> y)

\* **x_args, **{bench.line_arg: y}, **bench.args
Keywords(b, x, y) == x_args(b, x) @@ (b.line_arg :> y) @@ b.args

Column(label, stat) == [label |-> label, stat |-> stat]

\* [bench.x_names[0]] + y_mean + y_min + y_max
Columns(bench) ==
    <<Column(bench.x_names[1], "x")>>
    \o [k \in 1..Len(bench.line_names) |-> Column(bench.line_names[k], "mean")]
    \o [k \in 1..Len(bench.line_names) |-> Column(bench.line_names[k], "min")]
    \o [k \in 1..Len(bench.line_names) |-> Column(bench.line_names[k], "max")]

NoRows == [mean |-> <<>>, min |-> <<>>, max |-> <<>>]

File(b, kind, plot_name) == [bench |-> b, kind |-> kind, plot_name |-> plot_name]

Html(tag, plot_name) == [tag |-> tag, plot_name |-> plot_name]

MkIdle ==
    /\ mk_fn = "none" /\ mk_benchmarks = [isBenchmark |-> FALSE, obj |-> <<>>]
    /\ mk_save_path = "" /\ mk_pc = "idle" /\ mk_list = <<>> /\ mk_b = 0
    /\ mk_xi = 0 /\ mk_yi = 0 /\ mk_rows = NoRows /\ mk_columns = <<>>
    /\ mk_df = <<>> /\ mk_calls = <<>> /\ mk_files = <<>> /\ mk_html = <<>>
    /\ mk_exc = "none"

\* Mark(fn, benchmarks) is constructed and run(save_path=...) is entered
MkInit ==
    /\ mk_fn \in UserFns
    /\ mk_benchmarks \in BenchmarkArgs
    /\ mk_save_path \in {"", "out"}
    /\ mk_pc = "run" /\ mk_list = <<>> /\ mk_b = 0
    /\ mk_xi = 0 /\ mk_yi = 0 /\ mk_rows = NoRows /\ mk_columns = <<>>
    /\ mk_df = <<>> /\ mk_calls = <<>> /\ mk_files = <<>> /\ mk_html = <<>>
    /\ mk_exc = "none"

\* the Benchmark _run is sweeping
bench == mk_list[mk_b + 1]

\* run, lines 268-272
MkRun ==
    /\ entry = "Mark.run" /\ mk_pc = "run"
    /\ mk_list' = IF mk_benchmarks.isBenchmark
                  THEN <<mk_benchmarks.obj>>
                  ELSE mk_benchmarks.obj
    /\ mk_html' = IF mk_save_path # "" THEN <<Html("open", "")>> ELSE <<>>
    /\ mk_b' = 0
    /\ mk_pc' = "for_bench"
    /\ UNCHANGED <<entry, tl_vars, ac_vars, db_vars, mk_fn, mk_benchmarks, mk_save_path,
                   mk_xi, mk_yi, mk_rows, mk_columns, mk_df, mk_calls, mk_files,
                   mk_exc>>

\* run, lines 273-274, and _run, lines 221-224
MkRunBench ==
    /\ entry = "Mark.run" /\ mk_pc = "for_bench" /\ mk_b < Len(mk_list)
    /\ mk_columns' = Columns(bench)
    /\ mk_df' = <<>>
    /\ mk_xi' = 0
    /\ mk_pc' = "for_x"
    /\ UNCHANGED <<entry, tl_vars, ac_vars, db_vars, mk_fn, mk_benchmarks, mk_save_path,
                   mk_list, mk_b, mk_yi, mk_rows, mk_calls, mk_files, mk_html,
                   mk_exc>>

\* _run, lines 225-227
MkRowStart ==
    /\ entry = "Mark.run" /\ mk_pc = "for_x" /\ mk_xi < Len(bench.x_vals)
    /\ mk_rows' = NoRows
    /\ mk_yi' = 0
    /\ mk_pc' = "for_y"
    /\ UNCHANGED <<entry, tl_vars, ac_vars, db_vars, mk_fn, mk_benchmarks, mk_save_path,
                   mk_list, mk_b, mk_xi, mk_columns, mk_df, mk_calls, mk_files,
                   mk_html, mk_exc>>

\* _run, lines 228-236, one iteration: the call is outside the try, so an
\* exception of self.fn leaves _run and run
MkCell ==
    /\ entry = "Mark.run" /\ mk_pc = "for_y" /\ mk_yi < Len(bench.line_vals)
    /\ LET x == bench.x_vals[mk_xi + 1]
           y == bench.line_vals[mk_yi + 1]
           kwargs == Keywords(bench, x, y)
           ret == fn(mk_fn, kwargs)
           cell == Unpack(ret)
       IN  \/ /\ mk_calls' = Append(mk_calls,
                                [bench |-> mk_b + 1, kwargs |-> kwargs, ret |-> ret])
              /\ mk_rows' = [mean |-> Append(mk_rows.mean, cell[1]),
                             min |-> Append(mk_rows.min, cell[2]),
                             max |-> Append(mk_rows.max, cell[3])]
              /\ mk_yi' = mk_yi + 1
              /\ UNCHANGED <<mk_pc, mk_exc>>
           \/ /\ mk_calls' = Append(mk_calls,
                                [bench |-> mk_b + 1, kwargs |-> kwargs, ret |-> FnRaised])
              /\ mk_pc' = "raised"
              /\ mk_exc' = "fn"
              /\ UNCHANGED <<mk_rows, mk_yi>>
    /\ UNCHANGED <<entry, tl_vars, ac_vars, db_vars, mk_fn, mk_benchmarks, mk_save_path,
                   mk_list, mk_b, mk_xi, mk_columns, mk_df, mk_files, mk_html>>

\* _run, line 237
MkRowAppend ==
    /\ entry = "Mark.run" /\ mk_pc = "for_y" /\ mk_yi >= Len(bench.line_vals)
    /\ mk_df' = Append(mk_df, <<Val(bench.x_vals[mk_xi + 1])>>
                                \o mk_rows.mean \o mk_rows.min \o mk_rows.max)
    /\ mk_xi' = mk_xi + 1
    /\ mk_pc' = "for_x"
    /\ UNCHANGED <<entry, tl_vars, ac_vars, db_vars, mk_fn, mk_benchmarks, mk_save_path,
                   mk_list, mk_b, mk_yi, mk_rows, mk_columns, mk_calls, mk_files,
                   mk_html, mk_exc>>

\* _run, lines 238-259: the sweep is over; the plot is drawn and saved
MkPlot ==
    /\ entry = "Mark.run" /\ mk_pc = "for_x" /\ mk_xi >= Len(bench.x_vals)
    /\ mk_files' = IF bench.plot_name # "" /\ mk_save_path # ""
                   THEN Append(mk_files, File(mk_b + 1, "png", bench.plot_name))
                   ELSE mk_files
    /\ mk_pc' = "table"
    /\ UNCHANGED <<entry, tl_vars, ac_vars, db_vars, mk_fn, mk_benchmarks, mk_save_path,
                   mk_list, mk_b, mk_xi, mk_yi, mk_rows, mk_columns, mk_df,
                   mk_calls, mk_html, mk_exc>>

\* _run, lines 260-265: df is cut down to the x column and the mean columns,
\* and written
MkTable ==
    /\ entry = "Mark.run" /\ mk_pc = "table"
    /\ LET keep == 1 + Len(bench.line_names)
       IN  /\ mk_columns' = SubSeq(mk_columns, 1, keep)
           /\ mk_df' = [r \in 1..Len(mk_df) |-> SubSeq(mk_df[r], 1, keep)]
    /\ mk_files' = IF mk_save_path # ""
                   THEN Append(mk_files, File(mk_b + 1, "csv", bench.plot_name))
                   ELSE mk_files
    /\ mk_pc' = "after_run"
    /\ UNCHANGED <<entry, tl_vars, ac_vars, db_vars, mk_fn, mk_benchmarks, mk_save_path,
                   mk_list, mk_b, mk_xi, mk_yi, mk_rows, mk_calls, mk_html,
                   mk_exc>>

\* run, lines 275-276
MkRunImage ==
    /\ entry = "Mark.run" /\ mk_pc = "after_run"
    /\ mk_html' = IF mk_save_path # ""
                  THEN Append(mk_html, Html("image", bench.plot_name))
                  ELSE mk_html
    /\ mk_b' = mk_b + 1
    /\ mk_pc' = "for_bench"
    /\ UNCHANGED <<entry, tl_vars, ac_vars, db_vars, mk_fn, mk_benchmarks, mk_save_path,
                   mk_list, mk_xi, mk_yi, mk_rows, mk_columns, mk_df, mk_calls,
                   mk_files, mk_exc>>

\* run, lines 277-278
MkRunClose ==
    /\ entry = "Mark.run" /\ mk_pc = "for_bench" /\ mk_b >= Len(mk_list)
    /\ mk_html' = IF mk_save_path # ""
                  THEN Append(mk_html, Html("close", ""))
                  ELSE mk_html
    /\ mk_pc' = "done"
    /\ UNCHANGED <<entry, tl_vars, ac_vars, db_vars, mk_fn, mk_benchmarks, mk_save_path,
                   mk_list, mk_b, mk_xi, mk_yi, mk_rows, mk_columns, mk_df,
                   mk_calls, mk_files, mk_exc>>

NextMark ==
    \/ MkRun \/ MkRunBench \/ MkRowStart \/ MkCell \/ MkRowAppend \/ MkPlot
    \/ MkTable \/ MkRunImage \/ MkRunClose

(***************************************************************************)
(* test_bitwise_op, _test_binary                                           *)
(***************************************************************************)
\* int_dtypes and float_dtypes, one narrow and one wide integer kind and one
\* floating kind of each list
int_dtypes == {"int8", "int32"}

float_dtypes == {"float32"}

\* the operators test_bitwise_op is parametrized with
BitOps == {"&", "|", "^"}

\* 'float' in dtype_x + dtype_y
HasFloat(dtype_x, dtype_y) == dtype_x \in float_dtypes \/ dtype_y \in float_dtypes

\* triton.testing.random: integers from randint(1, 32), floats from
\* normal(0, 10); three of the integers and a float of each sign
random(size, dtype) ==
    LET vals == IF dtype \in int_dtypes THEN {1, 2, 3} ELSE {-1, 2}
    IN  [dtype : {dtype}, data : [1..size -> vals]]

\* one bit of a op b
BitOf(op, p, q) ==
    CASE op = "&" -> IF p = 1 /\ q = 1 THEN 1 ELSE 0
      [] op = "|" -> IF p = 1 \/ q = 1 THEN 1 ELSE 0
      [] OTHER -> IF p # q THEN 1 ELSE 0

\* a op b of two non-negative integers, bit by bit
RECURSIVE Bitwise(_, _, _)
Bitwise(op, a, b) ==
    IF a = 0 /\ b = 0 THEN 0
    ELSE BitOf(op, a % 2, b % 2) + 2 * Bitwise(op, a \div 2, b \div 2)

\* the dtype of x op y on the host: the wider of two integer kinds
Promote(dtype_x, dtype_y) == IF dtype_x = dtype_y THEN dtype_x ELSE "int32"

\* eval(expr) with expr = ' x op y' on two integer tensors
HostBitwise(op, x, y) ==
    [dtype |-> Promote(x.dtype, y.dtype),
     data |-> [i \in 1..Len(x.data) |-> Bitwise(op, x.data[i], y.data[i])]]

\* what the kernel under test may leave in z_tri: the reference itself, or
\* any tensor of the same dtype and size over a few values
KernelOutputs(z_ref) ==
    LET vals == IF z_ref.dtype = "int8" THEN {-128, 0, 1} ELSE {0, 1}
    IN  {z_ref} \cup [dtype : {z_ref.dtype}, data : [1..Len(z_ref.data) -> vals]]

\* what compiling and launching the kernel under test may raise
KernelErrors == {"RuntimeError", "OutOfResources"}

Exc(site, kind) == [site |-> site, kind |-> kind]

NoExc == Exc("none", "none")

TbIdle ==
    /\ tb_pc = "idle"
    /\ tb_dtype_x = "none"
    /\ tb_dtype_y = "none"
    /\ tb_op = "none"
    /\ tb_x = NoTensor
    /\ tb_y = NoTensor
    /\ tb_z_ref = NoTensor
    /\ tb_z_tri = NoTensor
    /\ tb_exc = NoExc
    /\ tb_outcome = "idle"

\* pytest starts one case of test_bitwise_op
TbInit ==
    /\ tb_pc = "inputs"
    /\ tb_dtype_x \in int_dtypes \cup float_dtypes
    /\ tb_dtype_y \in int_dtypes \cup float_dtypes
    /\ tb_op \in BitOps
    /\ tb_x = NoTensor
    /\ tb_y = NoTensor
    /\ tb_z_ref = NoTensor
    /\ tb_z_tri = NoTensor
    /\ tb_exc = NoExc
    /\ tb_outcome = "running"

\* _test_binary: the kernel is patched and the inputs are drawn
TbInputs ==
    /\ tb_pc = "inputs"
    /\ tb_x' \in random(MaxLen, tb_dtype_x)
    /\ tb_y' \in random(MaxLen, tb_dtype_y)
    /\ tb_pc' = "reference"
    /\ UNCHANGED <<entry, ac_vars, db_vars, mk_vars, at_vars, pk_vars, mp_vars, tb_dtype_x, tb_dtype_y, tb_op,
                   tb_z_ref, tb_z_tri, tb_exc, tb_outcome>>

\* z_ref = eval(expr): torch implements no bitwise operator on a floating
\* tensor (an integer operand is promoted to the floating kind first) and
\* raises RuntimeError
TbReference ==
    /\ tb_pc = "reference"
    /\ IF HasFloat(tb_x.dtype, tb_y.dtype)
       THEN /\ tb_exc' = Exc("reference", "RuntimeError")
            /\ tb_pc' = "verdict"
            /\ UNCHANGED tb_z_ref
       ELSE /\ tb_z_ref' = HostBitwise(tb_op, tb_x, tb_y)
            /\ tb_pc' = "launch"
            /\ UNCHANGED tb_exc
    /\ UNCHANGED <<entry, ac_vars, db_vars, mk_vars, at_vars, pk_vars, mp_vars, tb_dtype_x, tb_dtype_y, tb_op,
                   tb_x, tb_y, tb_z_tri, tb_outcome>>

\* z_tri = torch.empty(...); kernel[(1, )](z_tri, x, y, ...): the kernel under
\* test is compiled and launched, and raises or fills z_tri
TbLaunch ==
    /\ tb_pc = "launch"
    /\ \/ /\ \E kind \in KernelErrors : tb_exc' = Exc("launch", kind)
          /\ tb_pc' = "verdict"
          /\ UNCHANGED tb_z_tri
       \/ /\ tb_z_tri' \in KernelOutputs(tb_z_ref)
          /\ tb_pc' = "compare"
          /\ UNCHANGED tb_exc
    /\ UNCHANGED <<entry, ac_vars, db_vars, mk_vars, at_vars, pk_vars, mp_vars, tb_dtype_x, tb_dtype_y, tb_op,
                   tb_x, tb_y, tb_z_ref, tb_outcome>>

\* triton.testing.assert_allclose(z_ref, z_tri)
TbCompare ==
    /\ tb_pc = "compare"
    /\ LET r == assert_allclose(tb_z_ref, tb_z_tri, TolDefault)
       IN  tb_exc' = IF r.kind = "return" THEN NoExc ELSE Exc("compare", r.kind)
    /\ tb_pc' = "verdict"
    /\ UNCHANGED <<entry, ac_vars, db_vars, mk_vars, at_vars, pk_vars, mp_vars, tb_dtype_x, tb_dtype_y, tb_op,
                   tb_x, tb_y, tb_z_ref, tb_z_tri, tb_outcome>>

\* test_bitwise_op: with a floating dtype the whole of _test_binary runs
\* under pytest.raises(RuntimeError), otherwise it runs bare
TbVerdict ==
    /\ tb_pc = "verdict"
    /\ tb_outcome' =
          IF HasFloat(tb_dtype_x, tb_dtype_y)
          THEN IF tb_exc.kind = "RuntimeError" THEN "passed" ELSE "failed"
          ELSE IF tb_exc = NoExc THEN "passed" ELSE "failed"
    /\ tb_pc' = "done"
    /\ UNCHANGED <<entry, ac_vars, db_vars, mk_vars, at_vars, pk_vars, mp_vars, tb_dtype_x, tb_dtype_y, tb_op,
                   tb_x, tb_y, tb_z_ref, tb_z_tri, tb_exc>>

NextBitwise == TbInputs \/ TbReference \/ TbLaunch \/ TbCompare \/ TbVerdict

(***************************************************************************)
(* test_atomic_rmw                                                         *)
(***************************************************************************)
\* the (op, dtype_x) pairs of the parametrization, float32 for the floats
AtomicCases ==
    {<<"add", "int32">>, <<"add", "float32">>, <<"max", "int32">>,
     <<"max", "float32">>, <<"min", "int32">>, <<"min", "float32">>}

Modes == {"all_neg", "all_pos", "min_neg", "max_pos"}

\* torch.iinfo(torch.int32).min and .max
Int32Max == 2147483647

Int32Min == -Int32Max - 1

\* float('inf'), kept as a number above every finite value of the model;
\* float('-inf') is its negation
Inf == 1000000000

is_floating_point(dtype) == dtype \in float_dtypes

max_neutral(dtype) == IF is_floating_point(dtype) THEN -Inf ELSE Int32Min

min_neutral(dtype) == IF is_floating_point(dtype) THEN Inf ELSE Int32Max

neutral_zero(op, dtype) == 0

neutral(op, dtype) ==
    CASE op = "add" -> 0
      [] op = "max" -> max_neutral(dtype)
      [] OTHER -> min_neutral(dtype)

\* torch.abs(x_tri), elementwise
Abs(x) == [x EXCEPT !.data = [i \in DOMAIN x.data |-> AbsInt(x.data[i])]]

\* -x_tri, elementwise
Neg(x) == [x EXCEPT !.data = [i \in DOMAIN x.data |-> -x.data[i]]]

\* the inputs the mode makes of a drawn x_tri; idx is drawn too
ModeInputs(mode, x) ==
    CASE mode = "all_neg" -> {Neg(Abs(x))}
      [] mode = "all_pos" -> {Abs(x)}
      [] mode = "min_neg" ->
            {[x EXCEPT !.data[idx] = -SeqMax(Abs(x).data) - 1] : idx \in DOMAIN x.data}
      [] OTHER ->
            {[x EXCEPT !.data[idx] = SeqMax(Abs(x).data) + 1] : idx \in DOMAIN x.data}

Min2(a, b) == IF a <= b THEN a ELSE b

\* tl.atomic_add / atomic_max / atomic_min (Z, x): the new value of the
\* cell.  The inputs are n_programs values of magnitude at most 32, so no
\* partial sum leaves the int32 range, and a sum of integer-valued floats of
\* this size is exact in any order.
atomic_rmw(op, dtype, z, x) ==
    CASE op = "add" -> z + x
      [] op = "max" -> Max2(z, x)
      [] OTHER -> Min2(z, x)

\* torch.sum of a 1-d tensor
RECURSIVE SeqSum(_, _)
SeqSum(s, i) == IF i = 0 THEN 0 ELSE SeqSum(s, i - 1) + s[i]

\* torch.min of a non-empty 1-d tensor
SeqMin(s) == CHOOSE m \in {s[i] : i \in 1..Len(s)} : \A i \in 1..Len(s) : m <= s[i]

\* torch_op(x_tri).to(dtype_x)
torch_op(op, x) ==
    CASE op = "add" -> SeqSum(x.data, Len(x.data))
      [] op = "max" -> SeqMax(x.data)
      [] OTHER -> SeqMin(x.data)

\* a 0-d tensor
Scalar(dtype, v) == [dtype |-> dtype, data |-> <<v>>]

Programs == 1..MaxPrograms

AtIdle ==
    /\ at_pc = "idle"
    /\ at_op = "none"
    /\ at_dtype_x = "none"
    /\ at_mode = "none"
    /\ at_x_tri = NoTensor
    /\ at_z_tri = 0
    /\ at_prog = <<>>
    /\ at_last = 0
    /\ at_z_ref = 0
    /\ at_outcome = "idle"

\* pytest starts one case of test_atomic_rmw
AtInit ==
    /\ at_pc = "inputs"
    /\ \E case \in AtomicCases : at_op = case[1] /\ at_dtype_x = case[2]
    /\ at_mode \in Modes
    /\ at_x_tri = NoTensor
    /\ at_z_tri = 0
    /\ at_prog = <<>>
    /\ at_last = 0
    /\ at_z_ref = 0
    /\ at_outcome = "running"

\* the inputs are drawn and adjusted to the mode, the cell is filled with the
\* neutral element and the grid of programs is launched
AtLaunch ==
    /\ at_pc = "inputs"
    /\ \E x \in random(MaxPrograms, at_dtype_x) : at_x_tri' \in ModeInputs(at_mode, x)
    /\ at_z_tri' = neutral(at_op, at_dtype_x)
    /\ at_prog' = [pid \in Programs |-> [pc |-> "load", x |-> 0]]
    /\ at_pc' = "kernel"
    /\ UNCHANGED <<entry, ac_vars, db_vars, mk_vars, tb_vars, pk_vars, mp_vars, at_op, at_dtype_x, at_mode,
                   at_last, at_z_ref, at_outcome>>

\* kernel: pid = tl.program_id(0); x = tl.load(X + pid)
AtLoad(pid) ==
    /\ at_pc = "kernel"
    /\ at_prog[pid].pc = "load"
    /\ at_prog' = [at_prog EXCEPT ![pid] = [pc |-> "atomic", x |-> at_x_tri.data[pid]]]
    /\ UNCHANGED <<entry, ac_vars, db_vars, mk_vars, tb_vars, pk_vars, mp_vars, at_pc, at_op, at_dtype_x,
                   at_mode, at_x_tri, at_z_tri, at_last, at_z_ref, at_outcome>>

\* kernel: old = tl.atomic_{op}(Z, x), one indivisible read-modify-write
AtAtomic(pid) ==
    /\ at_pc = "kernel"
    /\ at_prog[pid].pc = "atomic"
    /\ at_z_tri' = atomic_rmw(at_op, at_dtype_x, at_z_tri, at_prog[pid].x)
    /\ at_prog' = [at_prog EXCEPT ![pid].pc = "done"]
    /\ at_last' = pid
    /\ UNCHANGED <<entry, ac_vars, db_vars, mk_vars, tb_vars, pk_vars, mp_vars, at_pc, at_op, at_dtype_x,
                   at_mode, at_x_tri, at_z_ref, at_outcome>>

\* the host reduction and the comparison; .item() and the comparator read
\* the cell after the grid has finished
AtCompare ==
    /\ at_pc = "kernel"
    /\ \A pid \in Programs : at_prog[pid].pc = "done"
    /\ at_z_ref' = torch_op(at_op, at_x_tri)
    /\ at_outcome' =
          IF at_op # "add"
          THEN IF at_z_ref' = at_z_tri THEN "passed" ELSE "failed"
          ELSE IF assert_allclose(Scalar(at_dtype_x, at_z_ref'),
                                  Scalar(at_dtype_x, at_z_tri), TolDefault).kind = "return"
               THEN "passed" ELSE "failed"
    /\ at_pc' = "done"
    /\ UNCHANGED <<entry, ac_vars, db_vars, mk_vars, tb_vars, pk_vars, mp_vars, at_op, at_dtype_x, at_mode,
                   at_x_tri, at_z_tri, at_prog, at_last>>

NextAtomic ==
    \/ AtLaunch
    \/ \E pid \in Programs : AtLoad(pid)
    \/ \E pid \in Programs : AtAtomic(pid)
    \/ AtCompare

(***************************************************************************)
(* patch_kernel                                                            *)
(***************************************************************************)
\* a source text is a sequence of symbols
Alphabet == {"a", "b"}

Strings(n) == {<<>>} \cup SeqsUpTo(Alphabet, n)

\* key occurs in s
Contains(s, key) ==
    \E i \in 1..(Len(s) - Len(key) + 1) : SubSeq(s, i, i + Len(key) - 1) = key

\* s.replace(key, value) with count=1
RECURSIVE replace_first(_, _, _)
replace_first(s, key, value) ==
    IF Len(s) < Len(key) THEN s
    ELSE IF SubSeq(s, 1, Len(key)) = key
         THEN value \o SubSeq(s, Len(key) + 1, Len(s))
         ELSE <<Head(s)>> \o replace_first(Tail(s), key, value)

\* s.replace(key, value) for a non-empty key: the occurrences are taken left
\* to right and do not overlap, and the inserted value is not scanned again
RECURSIVE replace(_, _, _)
replace(s, key, value) ==
    IF Len(s) < Len(key) THEN s
    ELSE IF SubSeq(s, 1, Len(key)) = key
         THEN value \o replace(SubSeq(s, Len(key) + 1, Len(s)), key, value)
         ELSE <<Head(s)>> \o replace(Tail(s), key, value)

\* for key, value in to_replace.items(): src = src.replace(key, value),
\* from item i on; a dict iterates in insertion order
RECURSIVE ReplaceItems(_, _, _)
ReplaceItems(src, to_replace, i) ==
    IF i > Len(to_replace) THEN src
    ELSE ReplaceItems(replace(src, to_replace[i][1], to_replace[i][2]), to_replace, i + 1)

\* one (key, value) item of a dict
Items == (Strings(MaxKeyLen) \ {<<>>}) \X Strings(MaxValueLen)

\* the dicts of at most two items, as the sequence .items() yields; keys are
\* unique
Maps ==
    {<<>>} \cup {<<item>> : item \in Items}
           \cup {pair \in Items \X Items : pair[1][1] # pair[2][1]}

\* the dicts offered when several kernels are instantiated
FewMaps ==
    {<< <<(<<"a">>), (<<"b">>)>> >>,
     << <<(<<"b">>), (<<>>)>> >>,
     << <<(<<"a", "b">>), (<<"a">>)>>, <<(<<"b">>), (<<"a">>)>> >>}

\* kernel = template: the mistake copy.deepcopy guards against
alias(heap, obj) == <<heap, obj>>

\* copy.deepcopy(obj): a new object with equal fields; the heap with it, and
\* its id
deepcopy(heap, obj) == <<Append(heap, heap[obj]), Len(heap) + 1>>

\* the heap after patch_kernel(template, to_replace), and the object returned
patch_kernel(heap, template, to_replace) ==
    LET copied == deepcopy(heap, template)
        kernel == copied[2]
        src == ReplaceItems(copied[1][kernel].src, to_replace, 1)
    IN  <<[copied[1] EXCEPT ![kernel].src = src], kernel>>

\* the template the test declared
Template == 1

PkIdle ==
    /\ pk_heap = <<>>
    /\ pk_orig = <<>>
    /\ pk_to_replace = <<>>
    /\ pk_kernels = <<>>
    /\ pk_expect = <<>>

\* @triton.jit has made the template from a source
PkInit ==
    /\ pk_orig \in Strings(MaxSrcLen)
    /\ pk_heap = <<[src |-> pk_orig]>>
    /\ pk_to_replace = <<>>
    /\ pk_kernels = <<>>
    /\ pk_expect = <<>>

\* one call of patch_kernel: in the run "patch_kernel" a single call on the
\* template with any dict, in the run "instantiate" up to MaxKernels calls,
\* each on the template or on a kernel returned before
PatchKernel ==
    /\ entry \in {"patch_kernel", "instantiate"}
    /\ Len(pk_kernels) < (IF entry = "patch_kernel" THEN 1 ELSE MaxKernels)
    /\ \E to_replace \in (IF entry = "patch_kernel" THEN Maps ELSE FewMaps),
          template \in (IF entry = "patch_kernel" THEN {Template} ELSE DOMAIN pk_heap) :
          LET r == patch_kernel(pk_heap, template, to_replace)
          IN  /\ pk_heap' = r[1]
              /\ pk_kernels' = Append(pk_kernels, r[2])
              /\ pk_expect' = Append(pk_expect, r[1][r[2]].src)
              /\ pk_to_replace' = to_replace
    /\ UNCHANGED <<entry, ac_vars, db_vars, mk_vars, tb_vars, at_vars, mp_vars, pk_orig>>

NextPatch == PatchKernel

(***************************************************************************)
(* make_ptr_str                                                            *)
(***************************************************************************)
\* the shapes of rank 1..MaxRank with positive extents; dimension 1 is the
\* source's dimension 0
Shapes == SeqsUpTo(1..MaxDim, MaxRank)

\* range(rank), in order
forward_range(rank) == [k \in 1..rank |-> k]

\* reversed(range(rank)): the dimensions in the order the loop visits them
reversed_range(rank) == [k \in 1..rank |-> rank - k + 1]

\* ', '.join([':' if ii == i else 'None' for ii in range(rank)])
Idx(i, rank) == [ii \in 1..rank |-> IF ii = i THEN ":" ELSE "None"]

\* f'tl.arange(0, {extent})[{idx}]*{stride}'
Term(extent, idx, stride) == [extent |-> extent, idx |-> idx, stride |-> stride]

NoExpr == [name |-> "none", offsets |-> <<>>]

MpIdle ==
    /\ mp_pc = "idle"
    /\ mp_shape = <<>>
    /\ mp_k = 0
    /\ mp_stride = 0
    /\ mp_offsets = <<>>
    /\ mp_ret = NoExpr

\* make_ptr_str(name, shape) has been entered: rank = len(shape),
\* offsets = [], stride = 1
MpInit ==
    /\ mp_pc = "loop"
    /\ mp_shape \in Shapes
    /\ mp_k = 0
    /\ mp_stride = 1
    /\ mp_offsets = <<>>
    /\ mp_ret = NoExpr

\* one iteration of the for loop
MpIterate ==
    /\ mp_pc = "loop"
    /\ mp_k < Len(mp_shape)
    /\ LET rank == Len(mp_shape)
           i == reversed_range(rank)[mp_k + 1]
           idx == Idx(i, rank)
       IN  /\ mp_offsets' = Append(mp_offsets, Term(mp_shape[i], idx, mp_stride))
           /\ mp_stride' = mp_stride * mp_shape[i]
    /\ mp_k' = mp_k + 1
    /\ UNCHANGED <<entry, ac_vars, db_vars, mk_vars, tb_vars, at_vars, pk_vars, mp_pc,
                   mp_shape, mp_ret>>

\* return f"{name} + {' + '.join(offsets)}"
MpReturn ==
    /\ mp_pc = "loop"
    /\ mp_k = Len(mp_shape)
    /\ mp_ret' = [name |-> "X", offsets |-> mp_offsets]
    /\ mp_pc' = "returned"
    /\ UNCHANGED <<entry, ac_vars, db_vars, mk_vars, tb_vars, at_vars, pk_vars, mp_shape,
                   mp_k, mp_stride, mp_offsets>>

NextPtr == MpIterate \/ MpReturn

\* the dimension a term runs along: where its subscript has ':'
Axis(term) == CHOOSE ii \in DOMAIN term.idx : term.idx[ii] = ":"

\* tl.arange(0, extent)[idx]*stride at an index tuple: the subscript puts the
\* range along one dimension and broadcasts it along the others
TermAt(term, index) == index[Axis(term)] * term.stride

\* the value of ' + '.join(offsets) at an index tuple, from term n down
RECURSIVE OffsetAt(_, _, _)
OffsetAt(offsets, index, n) ==
    IF n = 0 THEN 0 ELSE OffsetAt(offsets, index, n - 1) + TermAt(offsets[n], index)

(***************************************************************************)
(* Specifications                                                          *)
(***************************************************************************)
\* no case of test_language.py is running
TlIdle == TbIdle /\ AtIdle /\ PkIdle /\ MpIdle

InitAllclose == entry = "allclose" /\ AcInit /\ DbIdle /\ MkIdle /\ TlIdle

NextAllclose == CallAllclose \/ CallAssertAllclose

SpecAllclose == InitAllclose /\ [][NextAllclose]_vars

InitBench ==
    \/ entry = "do_bench" /\ AcIdle /\ DbInit /\ MkIdle /\ TlIdle
    \/ entry = "Mark.run" /\ AcIdle /\ DbIdle /\ MkInit /\ TlIdle

NextBench == NextDoBench \/ NextMark

SpecBench == InitBench /\ [][NextBench]_vars

InitBitwise ==
    /\ entry = "test_bitwise_op"
    /\ AcIdle /\ DbIdle /\ MkIdle /\ TbInit /\ AtIdle /\ PkIdle /\ MpIdle

SpecBitwise == InitBitwise /\ [][NextBitwise]_vars

InitAtomic ==
    /\ entry = "test_atomic_rmw"
    /\ AcIdle /\ DbIdle /\ MkIdle /\ TbIdle /\ AtInit /\ PkIdle /\ MpIdle

SpecAtomic == InitAtomic /\ [][NextAtomic]_vars

InitPatch ==
    /\ entry \in {"patch_kernel", "instantiate"}
    /\ AcIdle /\ DbIdle /\ MkIdle /\ TbIdle /\ AtIdle /\ PkInit /\ MpIdle

SpecPatch == InitPatch /\ [][NextPatch]_vars

InitPtr ==
    /\ entry = "make_ptr_str"
    /\ AcIdle /\ DbIdle /\ MkIdle /\ TbIdle /\ AtIdle /\ PkIdle /\ MpInit

SpecPtr == InitPtr /\ [][NextPtr]_vars

(***************************************************************************)
(* Claims about the comparator                                             *)
(***************************************************************************)
AcDone(f) == entry = "allclose" /\ ac_pc = "done" /\ ac_fn = f

SameKind == ac_x.dtype = ac_y.dtype /\ shape(ac_x) = shape(ac_y)

\* the call ended without an error and did not reject
Accepted(out) == out.kind = "return" /\ out.val \in {"True", "None"}

\* max |s[i]|
MaxAbs(s) == SeqMax([i \in 1..Len(s) |-> AbsInt(s[i])])

\* max |x[i] - y[i]|, in exact arithmetic
MaxAbsDiff(x, y) == SeqMax([i \in 1..Len(x.data) |-> AbsInt(x.data[i] - y.data[i])])

\* C1: for two arrays of the same integer dtype and the same shape, allclose
\* returns true if and only if the arrays are element-wise equal.
C1_IntegerExact ==
    (AcDone("allclose") /\ SameKind /\ ac_x.dtype \in IntDtypes)
        => /\ ac_out.kind = "return"
           /\ (ac_out.val = "True") <=> (ac_x.data = ac_y.data)

\* C2: for two same-dtype, same-shape non-boolean arrays, allclose returns true
\* if and only if max|x - y| <= threshold * max(max|x|, max|y|).  Stated on the
\* floating dtype with tol left at its default, where the threshold is 1e-2
\* under every reading of the claim.
C2_RelativeToMaxMagnitude ==
    (AcDone("allclose") /\ SameKind /\ ac_x.dtype = "float32" /\ ac_tol = TolDefault)
        => /\ ac_out.kind = "return"
           /\ (ac_out.val = "True") <=>
                (TolDen * MaxAbsDiff(ac_x, ac_y)
                    <= TolDefault * Max2(MaxAbs(ac_x.data), MaxAbs(ac_y.data)))

\* the code's own error measure, compared against the threshold t
ErrWithin(x, y, t) ==
    QuotientLeq(SeqMax(AbsDiff(x, y)), Max2(SeqMax(x.data), SeqMax(y.data)), t)

\* C3: the accept/reject decision of allclose and assert_allclose is made
\* against the tol the caller passed.  Stated on the floating dtype, whose
\* threshold no other rule replaces.
C3_PassedTolDecides ==
    (entry = "allclose" /\ ac_pc = "done" /\ SameKind /\ ac_x.dtype = "float32")
        => (Accepted(ac_out) <=> ErrWithin(ac_x, ac_y, ac_tol))

\* a pair of equal dtype and shape that violates every tolerance: [100.] vs [0.]
FarX == [dtype |-> "float32", data |-> <<100>>]

FarY == [dtype |-> "float32", data |-> <<0>>]

Run(f, x, y, tol) ==
    IF f = "allclose" THEN allclose(x, y, tol) ELSE assert_allclose(x, y, tol)

\* what the caller sees of an outcome: value or exception class, and message
Seen(out) == <<out.kind, out.val, out.msg>>

\* C4: when the arguments differ in dtype or in shape, allclose and
\* assert_allclose fail with an error raised before any value comparison; the
\* outcome is never a boolean result and differs from the outcome of a
\* tolerance violation.
C4_MismatchIsDistinctError ==
    (entry = "allclose" /\ ac_pc = "done" /\ ~SameKind)
        => /\ ac_out.kind \notin {"return", "none"}
           /\ ~ac_out.compared
           /\ Seen(ac_out) # Seen(Run(ac_fn, FarX, FarY, ac_tol))

(***************************************************************************)
(* Claims about Mark                                                       *)
(***************************************************************************)
\* the loop over x_vals of the current Benchmark is over and df is still the
\* accumulated table (it is cut down at line 260)
SweepFinished ==
    /\ entry = "Mark.run"
    /\ \/ mk_pc = "for_x" /\ mk_xi >= Len(bench.x_vals)
       \/ mk_pc = "table"

OfCurrentBench(c) == c.bench = mk_b + 1

Sweeps == IF mk_benchmarks.isBenchmark THEN <<mk_benchmarks.obj>> ELSE mk_benchmarks.obj

\* the cells of Benchmark number n, x-major
BenchCells(n, b) ==
    [c \in 1..(Len(b.x_vals) * Len(b.line_vals)) |->
        [bench |-> n,
         x |-> b.x_vals[((c - 1) \div Len(b.line_vals)) + 1],
         y |-> b.line_vals[((c - 1) % Len(b.line_vals)) + 1]]]

RECURSIVE AllCells(_, _)
AllCells(list, n) ==
    IF n = 0 THEN <<>> ELSE AllCells(list, n - 1) \o BenchCells(n, list[n])

\* C6: the user function is called once per (x value, line value) cell, for
\* the Benchmarks in list order, x-major then line order; each call binds every
\* name of x_names to the x value, line_arg to the line value and the fixed
\* args unchanged; a single Benchmark is swept once.
C6_CallPerCell ==
    entry = "Mark.run" =>
        LET cells == AllCells(Sweeps, Len(Sweeps))
        IN  /\ Len(mk_calls) <= Len(cells)
            /\ mk_pc = "done" => Len(mk_calls) = Len(cells)
            /\ \A k \in 1..Len(mk_calls) :
                LET c == mk_calls[k]
                    e == cells[k]
                    b == Sweeps[e.bench]
                    names == {b.x_names[m] : m \in 1..Len(b.x_names)}
                IN  /\ c.bench = e.bench
                    /\ DOMAIN c.kwargs = names \cup {b.line_arg} \cup DOMAIN b.args
                    /\ \A n \in names : c.kwargs[n] = e.x
                    /\ c.kwargs[b.line_arg] = e.y
                    /\ \A a \in DOMAIN b.args : c.kwargs[a] = b.args[a]

\* a list of two Benchmarks swept to the end, the first with two x names, two
\* x values and two lines
C6_Witness ==
    /\ entry = "Mark.run" /\ mk_pc = "done"
    /\ ~mk_benchmarks.isBenchmark
    /\ Len(mk_list) = 2
    /\ mk_list[1].x_names = <<"M", "N">>
    /\ mk_list[1].x_vals = <<128, 256>>
    /\ Len(mk_calls) = 5

(***************************************************************************)
(* Claims about do_bench                                                   *)
(***************************************************************************)
Repeat(e, n) == [k \in 1..n |-> e]

\* what one trial issues
TrialEvents(i, reset) ==
    (IF reset THEN <<Ev("grad_none", "trial", i)>> ELSE <<>>)
    \o <<Ev("zero_", "trial", i), Ev("start", "trial", i), Ev("fn", "trial", i),
         Ev("end", "trial", i)>>

RECURSIVE Trials(_, _)
Trials(n, reset) == IF n = 0 THEN <<>> ELSE Trials(n - 1, reset) \o TrialEvents(n, reset)

\* the order of the claim, for nw warm-up calls and rep trials
ClaimedOrder(nw, rep, reset) ==
    <<Ev("fn", "first", 0), Ev("synchronize", "first", 0),
      Ev("start", "estimate", 0)>>
    \o Repeat(Ev("fn", "estimate", 0), 5)
    \o <<Ev("end", "estimate", 0), Ev("synchronize", "estimate", 0),
         Ev("elapsed_time", "estimate", 0)>>
    \o Repeat(Ev("fn", "warmup", 0), nw)
    \o Trials(rep, reset)
    \o <<Ev("synchronize", "final", 0)>>
    \o [i \in 1..rep |-> Ev("elapsed_time", "trial", i)]

IsPrefix(s, t) == Len(s) <= Len(t) /\ s = SubSeq(t, 1, Len(s))

IsWarmupCall(e) == e.op = "fn" /\ e.ph = "warmup"

\* the warm-up calls made
WarmupCalls == Len(SelectSeq(db_log, IsWarmupCall))

\* the warm-up loop has been left
WarmupFinished ==
    /\ entry = "do_bench"
    /\ db_pc \in {"trial", "trial_zero", "trial_start", "trial_call", "trial_end",
                  "read_times", "quantile", "done"}

\* C8 as stated: for warmup > 0 and a positive estimate the warm-up calls
\* accumulate at least warmup: calls * estimate >= warmup, with estimate =
\* elapsed / 5.
C8_WarmupCovers ==
    (WarmupFinished /\ db_warmup > 0 /\ db_elapsed > 0)
        => WarmupCalls * db_elapsed >= EstimateDivisor * db_warmup

\* C8 as amended: the number of warm-up calls is warmup / estimate truncated,
\* so the calls accumulate at most warmup and fall short of it by less than
\* one estimate.
C8_WarmupTruncated ==
    WarmupFinished =>
        /\ WarmupCalls * db_elapsed <= EstimateDivisor * db_warmup
        /\ EstimateDivisor * db_warmup < (WarmupCalls + 1) * db_elapsed

\* warm-up calls were made and fell short of warmup
C8_Witness ==
    /\ WarmupFinished /\ WarmupCalls >= 1
    /\ WarmupCalls * db_elapsed < EstimateDivisor * db_warmup

\* C9 as stated: for rep >= 1 and an ascending list of percentiles the returned
\* tuple has first percentile value <= median <= last percentile value.
C9_MedianBetween ==
    (entry = "do_bench" /\ db_pc = "done" /\ db_ret.kind = "tuple")
        => /\ db_ret.vals[2] <= db_ret.vals[1]
           /\ db_ret.vals[1] <= db_ret.vals[Len(db_ret.vals)]

\* rank of the median returned among the n sorted times, from 0, times 100
MedianRank(n) == 100 * ((n - 1) \div 2)

\* C9 as amended: the same, for the lists whose first percentile has its rank
\* p * (rep - 1) at or below the rank of the (lower) median, floor((rep - 1) / 2),
\* and whose last percentile has its rank at or above it.
C9_MedianBetweenRanks ==
    (/\ entry = "do_bench" /\ db_pc = "done" /\ db_ret.kind = "tuple"
     /\ db_percentiles[1] * (db_rep - 1) <= MedianRank(db_rep)
     /\ MedianRank(db_rep) <= db_percentiles[Len(db_percentiles)] * (db_rep - 1))
        => /\ db_ret.vals[2] <= db_ret.vals[1]
           /\ db_ret.vals[1] <= db_ret.vals[Len(db_ret.vals)]

\* the default percentiles on three distinct times
C9_Witness ==
    /\ entry = "do_bench" /\ db_pc = "done"
    /\ db_percentiles = <<20, 80>> /\ db_rep = 3
    /\ db_ret.kind = "tuple"
    /\ db_ret.vals[2] < db_ret.vals[1] /\ db_ret.vals[1] < db_ret.vals[3]

IsImage(h) == h.tag = "image"

\* C10: an exception of the measured callable leaves do_bench: fn is not called
\* again and nothing is returned; an exception of the user function leaves
\* Mark.run: no later cell or Benchmark is run and no plot or table file (nor
\* its line of results.html) is written for the Benchmark being swept.
C10_ExceptionPropagates ==
    [][/\ db_exc = "fn" => (db_log' = db_log /\ db_ret' = db_ret)
       /\ db_exc' = "fn" =>
            /\ db_ret' = NoRet
            /\ db_log'[Len(db_log')].op = "fn"
       /\ mk_exc = "fn" =>
            /\ mk_calls' = mk_calls /\ mk_files' = mk_files
            /\ mk_html' = mk_html /\ mk_b' = mk_b
       /\ mk_exc' = "fn" =>
            /\ mk_calls'[Len(mk_calls')].ret = FnRaised
            /\ \A k \in 1..Len(mk_files') : mk_files'[k].bench # mk_b' + 1
            /\ Len(SelectSeq(mk_html', IsImage)) <= mk_b'
            /\ mk_html' # <<>> => mk_html'[Len(mk_html')].tag # "close"]_vars

\* the user function raised in the second Benchmark of a list, with files of
\* the first one written
C10_Witness ==
    /\ entry = "Mark.run" /\ mk_exc = "fn"
    /\ mk_b = 1 /\ Len(mk_list) = 2 /\ Len(mk_files) = 2


(***************************************************************************)
(* Claims about the cases of test_language.py                              *)
(***************************************************************************)
TbDone == entry = "test_bitwise_op" /\ tb_pc = "done"

\* C11: a case of test_bitwise_op with a floating operand dtype passes if and
\* only if compiling and launching the kernel raised a RuntimeError (not when
\* nothing was raised, not on an error of another step or of another
\* category); a case with two integer dtypes passes only if the kernel output
\* equals the host bitwise reference exactly.
C11_PassesOnKernelVerdict ==
    TbDone =>
        IF HasFloat(tb_dtype_x, tb_dtype_y)
        THEN tb_outcome = "passed" <=> tb_exc = Exc("launch", "RuntimeError")
        ELSE tb_outcome = "passed" => tb_z_tri = tb_z_ref


AtFinished ==
    /\ entry = "test_atomic_rmw"
    /\ at_pc \in {"kernel", "done"}
    /\ \A pid \in Programs : at_prog[pid].pc = "done"

\* the cases the claim speaks of: max, min, and add over integers
AtExactCase == at_op \in {"max", "min"} \/ ~is_floating_point(at_dtype_x)

\* C12: with the cell seeded with the neutral element of the operator, after
\* all programs have atomically folded their element into the cell, in
\* whatever order, the cell equals the host reduction of the inputs (for max
\* and min, and for add over integers).
C12_CellIsReduction ==
    AtFinished /\ AtExactCase => at_z_tri = torch_op(at_op, at_x_tri)

\* a max over negative inputs whose largest element belongs to the last
\* program, folded in an order that ends with the first program
C12_Witness ==
    /\ AtFinished
    /\ at_pc = "done"
    /\ at_op = "max"
    /\ at_dtype_x = "int32"
    /\ at_mode = "all_neg"
    /\ at_x_tri.data[MaxPrograms] > at_x_tri.data[1]
    /\ at_last = 1
    /\ at_z_tri = at_x_tri.data[MaxPrograms]
    /\ at_outcome = "passed"


\* a single call of patch_kernel has returned
PkReturned == entry = "patch_kernel" /\ Len(pk_kernels) = 1

PkResult == pk_heap[pk_kernels[1]].src

Keys(to_replace) == {to_replace[i][1] : i \in DOMAIN to_replace}

Values(to_replace) == {to_replace[i][2] : i \in DOMAIN to_replace}

Symbols(s) == {s[i] : i \in DOMAIN s}

\* C13 as stated: for every template source and every substitution map, the
\* source of the kernel patch_kernel returns contains no occurrence of any
\* key of the map, whatever the order of the keys and whatever the values
\* contain.
C13_NoKeyRemains ==
    PkReturned => \A key \in Keys(pk_to_replace) : ~Contains(PkResult, key)

\* no value is empty and no value holds a symbol that occurs in a key
ValuesApartFromKeys(to_replace) ==
    \A value \in Values(to_replace) :
        /\ value # <<>>
        /\ \A key \in Keys(to_replace) : Symbols(value) \cap Symbols(key) = {}

\* C13, amended: when every replacement value is non-empty and holds no
\* symbol that occurs in a key, the source of the kernel patch_kernel returns
\* contains no occurrence of any key of the map, whatever the order of the
\* keys.
C13_NoKeyRemainsWhenApart ==
    PkReturned /\ ValuesApartFromKeys(pk_to_replace) =>
        \A key \in Keys(pk_to_replace) : ~Contains(PkResult, key)

\* a map of two keys, both occurring in the template, the shorter one first
C13_Witness ==
    /\ PkReturned
    /\ ValuesApartFromKeys(pk_to_replace)
    /\ Len(pk_to_replace) = 2
    /\ Len(pk_to_replace[1][1]) < Len(pk_to_replace[2][1])
    /\ \A key \in Keys(pk_to_replace) : Contains(pk_orig, key)
    /\ PkResult # pk_orig
    /\ \A key \in Keys(pk_to_replace) : ~Contains(PkResult, key)

\* C14: after any sequence of instantiations the template's source is the
\* source it was constructed with, and every kernel returned so far still
\* has the source it was returned with: patching one kernel changes neither
\* the template nor another kernel.
C14_TemplateUnchanged ==
    entry = "instantiate" =>
        /\ pk_heap[Template].src = pk_orig
        /\ \A i \in DOMAIN pk_kernels : pk_heap[pk_kernels[i]].src = pk_expect[i]

\* two kernels instantiated from one template, each unlike the template and
\* unlike the other
C14_Witness ==
    /\ entry = "instantiate"
    /\ Len(pk_kernels) = 2
    /\ pk_heap[pk_kernels[1]].src # pk_orig
    /\ pk_heap[pk_kernels[2]].src # pk_orig
    /\ pk_heap[pk_kernels[1]].src # pk_heap[pk_kernels[2]].src
    /\ pk_heap[Template].src = pk_orig


MpReturned == entry = "make_ptr_str" /\ mp_pc = "returned"

\* shape[from] * ... * shape[rank]
RECURSIVE ProdFrom(_, _)
ProdFrom(shp, from) == IF from > Len(shp) THEN 1 ELSE shp[from] * ProdFrom(shp, from + 1)

\* the index tuples of a shape: 0 <= index[i] < shape[i]
IndexTuples(shp) ==
    {t \in [1..Len(shp) -> 0..(SeqMax(shp) - 1)] : \A i \in 1..Len(shp) : t[i] < shp[i]}

\* the row-major linear index of an index tuple, over its first n dimensions
RECURSIVE RowMajor(_, _, _)
RowMajor(shp, index, n) ==
    IF n = 0 THEN 0 ELSE RowMajor(shp, index, n - 1) * shp[n] + index[n]

MpOffset(index) == OffsetAt(mp_ret.offsets, index, Len(mp_ret.offsets))

\* C15: the expression make_ptr_str returns has one term per dimension, the
\* term of dimension i with stride shape[i+1] * ... * shape[rank-1] (1 for the
\* last dimension); the offset of every index tuple is its row-major linear
\* index, and the offsets of all index tuples are exactly 0..prod(shape)-1,
\* none repeated.
C15_RowMajorOffsets ==
    MpReturned =>
        /\ \A i \in 1..Len(mp_shape) :
              \E n \in DOMAIN mp_ret.offsets :
                  /\ Axis(mp_ret.offsets[n]) = i
                  /\ mp_ret.offsets[n].extent = mp_shape[i]
                  /\ mp_ret.offsets[n].stride = ProdFrom(mp_shape, i + 1)
        /\ Len(mp_ret.offsets) = Len(mp_shape)
        /\ \A index \in IndexTuples(mp_shape) :
              MpOffset(index) = RowMajor(mp_shape, index, Len(mp_shape))
        /\ {MpOffset(index) : index \in IndexTuples(mp_shape)} = 0..(ProdFrom(mp_shape, 1) - 1)
        /\ \A s, t \in IndexTuples(mp_shape) : MpOffset(s) = MpOffset(t) => s = t

\* a shape of the largest rank whose extents exceed 1 and are not all equal
C15_Witness ==
    /\ MpReturned
    /\ Len(mp_shape) = MaxRank
    /\ mp_shape[1] # mp_shape[2]
    /\ \A i \in 1..Len(mp_shape) : mp_shape[i] > 1
    /\ MpOffset([i \in 1..Len(mp_shape) |-> mp_shape[i] - 1]) = ProdFrom(mp_shape, 1) - 1
    /\ mp_ret.offsets[1].stride = 1
    /\ Axis(mp_ret.offsets[1]) = MaxRank

====
